---- MODULE Spec2Model ----
(***************************************************************************)
(* Model of the restoration pipeline of super_resolution_upscaler          *)
(* (src/src/main.rs): the per-image pipeline process_single_image, the     *)
(* sequential batch process_images and the video run                       *)
(* process_video_blocking with its rayon worker pool.                      *)
(***************************************************************************)
EXTENDS Integers, Sequences, FiniteSets, TLC

(***************************************************************************)
(* Bounds of the model.                                                    *)
(***************************************************************************)
\* image dimensions are drawn from 1..MaxSmallDim, from
\* (WorkingCap - CapMargin)..MaxLargeDim and from ExampleDims
MaxSmallDim == 48
CapMargin == 8
MaxLargeDim == 600
\* files of one batch
MaxFiles == 3
\* frames of one video
MaxFrames == 2
\* sizes and multiples pad_to_multiple is called with on its own
MaxPadDim == 12
MaxMultiple == 6
\* scale factors a profile is given when the suffix is computed on its own
MaxScale == 4
\* sizes of the images the stages after the size policy are run on
MaxStageDim == 6

(***************************************************************************)
(* Program constants.                                                      *)
(***************************************************************************)
\* main.rs:1409  let max_dim = 512.max(min_dim)
WorkingCap == 512
\* f32 has a 24 bit significand
F32Bits == 24
\* main.rs:1720  rayon::ThreadPoolBuilder::new().num_threads(4)
NumThreads == 4
\* the largest u8, the upper clamp of main.rs:1333 and main.rs:1337
U8Max == 255

Max(a, b) == IF a >= b THEN a ELSE b
Min(a, b) == IF a <= b THEN a ELSE b

RECURSIVE BitLen(_)
BitLen(n) == IF n = 0 THEN 0 ELSE 1 + BitLen(n \div 2)

(***************************************************************************)
(* IEEE-754 binary32 arithmetic as used by the size policy.  A positive    *)
(* f32 is the record [m, q] of value m / 2^q with 2^23 <= m <= 2^24.       *)
(***************************************************************************)
RECURSIVE DivStep(_, _, _, _)
DivStep(quot, rem, b, q) ==
    IF quot >= 2^(F32Bits - 1)
    THEN [quot |-> quot, rem |-> rem, q |-> q]
    ELSE LET r2  == 2 * rem
             bit == IF r2 >= b THEN 1 ELSE 0
         IN  DivStep(2 * quot + bit, r2 - bit * b, b, q + 1)

\* (a as f32) / (b as f32), a and b positive integers below 2^23, rounded to
\* nearest, ties to even
F32Div(a, b) ==
    LET d  == DivStep(a \div b, a % b, b, 0)
        up == 2 * d.rem > b \/ (2 * d.rem = b /\ d.quot % 2 = 1)
    IN  [m |-> d.quot + (IF up THEN 1 ELSE 0), q |-> d.q]

F32One == [m |-> 2^(F32Bits - 1), q |-> F32Bits - 1]

\* f >= 1.0
F32GeOne(f) == f.m >= 2^f.q

\* f.max(1.0) and f.min(1.0)
F32MaxOne(f) == IF F32GeOne(f) THEN f ELSE F32One
F32MinOne(f) == IF F32GeOne(f) THEN F32One ELSE f

\* the product rounded to the nearest integer instead of truncated
F32MulRound(w, f) ==
    LET WordBits == 15
        B    == 2^WordBits
        mh   == f.m \div B
        ml   == f.m % B
        lo0  == w * ml
        hi   == w * mh + lo0 \div B
        lo   == lo0 % B
        L    == IF hi = 0 THEN BitLen(lo) ELSE BitLen(hi) + WordBits
        d    == IF L > F32Bits THEN L - F32Bits ELSE 0
        kept == hi * 2^(WordBits - d) + lo \div 2^d
        rem  == lo % 2^d
        up   == d > 0 /\ (2 * rem > 2^d \/ (2 * rem = 2^d /\ kept % 2 = 1))
        r    == kept + (IF up THEN 1 ELSE 0)
    IN  IF f.q > d THEN (r + 2^(f.q - d - 1)) \div 2^(f.q - d) ELSE r * 2^(d - f.q)

\* ((w as f32) * f) as u32: the product is rounded to 24 bits (nearest, ties
\* to even) and the cast truncates toward zero
F32MulTrunc(w, f) ==
    LET WordBits == 15   \* the product is formed in two words to stay in range
        B    == 2^WordBits
        mh   == f.m \div B
        ml   == f.m % B
        lo0  == w * ml
        hi   == w * mh + lo0 \div B
        lo   == lo0 % B
        L    == IF hi = 0 THEN BitLen(lo) ELSE BitLen(hi) + WordBits
        d    == IF L > F32Bits THEN L - F32Bits ELSE 0
        kept == hi * 2^(WordBits - d) + lo \div 2^d
        rem  == lo % 2^d
        up   == d > 0 /\ (2 * rem > 2^d \/ (2 * rem = 2^d /\ kept % 2 = 1))
        r    == kept + (IF up THEN 1 ELSE 0)
    IN  IF f.q >= d THEN r \div 2^(f.q - d) ELSE r * 2^(d - f.q)

(***************************************************************************)
(* Size policy of process_single_image (main.rs:1407-1432).                *)
(***************************************************************************)
\* Option<u32>: None is <<>>, Some(n) is <<n>>
None == <<>>
Some(n) == <<n>>

\* model.min_dimension.unwrap_or(0)
MinDim(minDimension) == IF minDimension = None THEN 0 ELSE minDimension[1]

\* let max_dim = 512.max(min_dim)
MaxDimOf(minDimension) == Max(WorkingCap, MinDim(minDimension))

\* the condition with the bounds themselves counted as out of range
NeedsResizeInclusive(ow, oh, minDimension) ==
    LET min_dim == MinDim(minDimension)
        max_dim == MaxDimOf(minDimension)
    IN  ow >= max_dim \/ oh >= max_dim \/ ow <= min_dim \/ oh <= min_dim

\* the condition of main.rs:1411
NeedsResize(ow, oh, minDimension) ==
    LET min_dim == MinDim(minDimension)
        max_dim == MaxDimOf(minDimension)
    IN  ow > max_dim \/ oh > max_dim \/ ow < min_dim \/ oh < min_dim

\* the "too small" branch, main.rs:1415-1419
UpscaleDims(ow, oh, min_dim) ==
    LET scale == F32MaxOne(F32Div(min_dim, Min(ow, oh)))
    IN  <<F32MulTrunc(ow, scale), F32MulTrunc(oh, scale)>>

\* the "too large" branch, main.rs:1422-1426
DownscaleDims(ow, oh, max_dim) ==
    LET scale == F32MinOne(F32Div(max_dim, Max(ow, oh)))
    IN  <<F32MulTrunc(ow, scale), F32MulTrunc(oh, scale)>>

\* target_dim of main.rs:1413-1427
TargetDim(ow, oh, minDimension) ==
    LET min_dim == MinDim(minDimension)
        max_dim == MaxDimOf(minDimension)
    IN  IF ow < min_dim \/ oh < min_dim
        THEN UpscaleDims(ow, oh, min_dim)
        ELSE DownscaleDims(ow, oh, max_dim)

(***************************************************************************)
(* The model table of App::new (main.rs:189-600).  The table has 31        *)
(* entries; the entries below are its distinct profiles (model type,       *)
(* scale, window size, tensor format, minimum dimension, kind of url).     *)
(* url is "http" for a download address, "local" for the "local" marker    *)
(* and "invalid" for the entry whose url is no address ("denoiser").       *)
(***************************************************************************)
Profile(name, url, type, scale, window, format, minDimension) ==
    [name |-> name, url |-> url, model_type |-> type, scale |-> scale,
     window_size |-> window, tensor_format |-> format,
     input_norm |-> "ZeroOne", output_norm |-> "ZeroOne",
     min_dimension |-> minDimension]

ModelTable ==
    << Profile("swin2SR-realworld-sr-x4-64-bsrgan-psnr", "http", "Upscaling", 4, 8, "NCHW", None),
       Profile("swin2SR-lightweight-x2-64", "http", "Upscaling", 2, 8, "NCHW", None),
       Profile("2x_APISR_RRDB_GAN_generator", "http", "Upscaling", 2, 1, "NCHW", None),
       Profile("4x_APISR_GRL_GAN_generator", "http", "Upscaling", 4, 1, "NCHW", None),
       Profile("SwinIR-Noise", "http", "Denoising", 1, 8, "NCHW", None),
       Profile("SwinIR-BSRGAN-4x", "http", "Enhancement", 4, 8, "NCHW", None),
       Profile("BSRGAN-2x", "http", "Enhancement", 2, 1, "NCHW", None),
       Profile("RealESRGAN-4x", "http", "Enhancement", 4, 1, "NCHW", None),
       Profile("denoiser", "invalid", "Denoising", 1, 64, "NHWC", None),
       Profile("deblurring_nafnet_2025may", "http", "Denoising", 1, 512, "NCHW", Some(512)),
       Profile("deblurgan_mobilenet", "local", "Denoising", 1, 16, "NCHW", None),
       Profile("restormer_deraining", "local", "Denoising", 1, 64, "NCHW", None) >>

(***************************************************************************)
(* pad_to_multiple (main.rs:1588-1611) and the call of it                  *)
(* (main.rs:1434-1439): padded dimensions and pads.                        *)
(***************************************************************************)
\* rounding up that also pads a dimension that is already a multiple
PadUpAlways(n, multiple) == ((n + multiple) \div multiple) * multiple

PadUp(n, multiple) == ((n + multiple - 1) \div multiple) * multiple

\* image is "clone" when img.clone() is returned and "canvas" when a new
\* RGB canvas of the padded size is
PadToMultiple(w, h, multiple) ==
    LET pad_w == PadUp(w, multiple)
        pad_h == PadUp(h, multiple)
        pad_r == pad_w - w
        pad_b == pad_h - h
    IN  IF pad_r = 0 /\ pad_b = 0
        THEN [image |-> "clone", dims |-> <<w, h>>, pads |-> <<0, 0>>]
        ELSE [image |-> "canvas", dims |-> <<pad_w, pad_h>>, pads |-> <<pad_r, pad_b>>]

\* the reflection without the clamp .min(w - 1)
ReflectUnclamped(x, w) == IF x < w THEN x ELSE w - 1 - (x - w)

\* let src_x = if x < w { x } else { w - 1 - (x - w).min(w - 1) },
\* main.rs:1604-1605; a negative value stands for a u32 subtraction that
\* went below zero
Reflect(x, w) == IF x < w THEN x ELSE w - 1 - Min(x - w, w - 1)

\* the pixel of rgb that each pixel of the returned image is read from,
\* main.rs:1596-1608
PadSources(w, h, multiple) ==
    LET padded == PadToMultiple(w, h, multiple)
    IN  [p \in (0..(padded.dims[1] - 1)) \X (0..(padded.dims[2] - 1)) |->
            IF padded.image = "clone" THEN p
            ELSE <<Reflect(p[1], w), Reflect(p[2], h)>>]

Padded(w, h, window_size) ==
    IF window_size > 1
    THEN PadToMultiple(w, h, window_size)
    ELSE [image |-> "clone", dims |-> <<w, h>>, pads |-> <<0, 0>>]

\* img after the size policy, main.rs:1411-1432
WorkingDims(ow, oh, minDimension) ==
    IF NeedsResize(ow, oh, minDimension)
    THEN TargetDim(ow, oh, minDimension)
    ELSE <<ow, oh>>

\* session.run (main.rs:1469): the engine is opaque; a model of scale s
\* returns a tensor whose spatial size is s times that of its input
InferenceDims(dims, scale) == <<dims[1] * scale, dims[2] * scale>>

\* Array4::<f32>::zeros((1, 3, h, w)) filled pixel by pixel,
\* main.rs:1296-1322: the shape of the tensor built for an image of size dims
PreprocessImageForModel(dims, model) == <<1, 3, dims[2], dims[1]>>

\* postprocess_tensor_for_model, main.rs:1325-1351: h and w are read from
\* shape[2] and shape[3] and the channels 0, 1, 2 of every pixel are
\* indexed; an index outside the tensor panics
PostprocessTensorForModel(shape) ==
    IF shape[3] > 0 /\ shape[4] > 0 /\ (shape[1] < 1 \/ shape[2] < 3)
    THEN [tag |-> "Panic", dims |-> <<0, 0>>]
    ELSE [tag |-> "Ok", dims |-> <<shape[4], shape[3]>>]

\* DynamicImage::crop_imm(0, 0, w, h): the rectangle is cut to the image
CropImm(img, w, h) == <<Min(w, img[1]), Min(h, img[2])>>

\* final_img left as decoded, padding included
KeepPadding(work, pads, scale, decoded) == decoded

\* the crop of main.rs:1500-1505 on the decoded image
CropPadding(work, pads, scale, decoded) ==
    IF pads[1] > 0 \/ pads[2] > 0
    THEN CropImm(decoded, work[1] * scale, work[2] * scale)
    ELSE decoded

\* the size of final_img for an output tensor [1, 3, H*scale, W*scale],
\* main.rs:1500-1507
FinalDims(work, padded, scale) ==
    CropPadding(work, padded.pads, scale, InferenceDims(padded.dims, scale))

(***************************************************************************)
(* Normalisation of preprocess_image_for_model (main.rs:1301-1310) and     *)
(* denormalisation of postprocess_tensor_for_model (main.rs:1330-1339).    *)
(* A signed f32 is [neg, m, q] of value (-1)^neg * m / 2^q, m < 2^24 + 1.  *)
(***************************************************************************)
\* n / 2^q, n a natural number, rounded to 24 bits (nearest, ties to even)
F32RoundNat(n, q) ==
    LET L    == BitLen(n)
        d    == IF L > F32Bits THEN L - F32Bits ELSE 0
        kept == n \div 2^d
        rem  == n % 2^d
        up   == d > 0 /\ (2 * rem > 2^d \/ (2 * rem = 2^d /\ kept % 2 = 1))
    IN  [m |-> kept + (IF up THEN 1 ELSE 0), q |-> q - d]

\* (a as f32) / (b as f32) for a >= 0
F32DivNat(a, b) == IF a = 0 THEN [m |-> 0, q |-> 0] ELSE F32Div(a, b)

\* x + 1.0 and x - 1.0 for x = s * f.m / 2^f.q, s = -1 when neg: the sum is
\* formed exactly and rounded once
F32AddInt(neg, f, k) ==
    LET n == (IF neg THEN 0 - f.m ELSE f.m) + k * 2^f.q
        a == IF n < 0 THEN 0 - n ELSE n
        r == F32RoundNat(a, f.q)
    IN  [neg |-> n < 0, m |-> r.m, q |-> r.q]

\* the closure applied to every input value whatever model.input_norm is
NormalizeZeroOneOnly(range, val) ==
    LET f == F32DivNat(val, U8Max) IN [neg |-> FALSE, m |-> f.m, q |-> f.q]

\* normalize_fn(val): val as f32 / 255.0, or (val as f32 / 127.5) - 1.0;
\* val / 127.5 and 2 val / 255 are the same real number, so they round to
\* the same f32
NormalizeFn(range, val) ==
    IF range = "ZeroOne"
    THEN LET f == F32DivNat(val, U8Max) IN [neg |-> FALSE, m |-> f.m, q |-> f.q]
    ELSE F32AddInt(FALSE, F32DivNat(2 * val, U8Max), -1)

\* (x * c / 2^h).clamp(0.0, 255.0) as u8 for c = 255: the cast truncates
ScaleClampToU8(x, h) ==
    IF x.neg THEN 0
    ELSE Min(U8Max, F32MulTrunc(U8Max, [m |-> x.m, q |-> x.q + h]))

\* denormalize_fn(val): (val * 255.0).clamp(0.0, 255.0) as u8, or
\* ((val + 1.0) * 127.5).clamp(0.0, 255.0) as u8; 127.5 is 255 / 2
DenormalizeFn(range, x) ==
    IF range = "ZeroOne"
    THEN ScaleClampToU8(x, 0)
    ELSE ScaleClampToU8(F32AddInt(x.neg, [m |-> x.m, q |-> x.q], 1), 1)

(***************************************************************************)
(* The name of the output file, main.rs:1510-1520.                         *)
(***************************************************************************)
\* the match of main.rs:1514-1518
Suffix(model_type, scale) ==
    IF model_type \in {"Upscaling", "Enhancement"} /\ scale > 1
    THEN "_" \o ToString(scale) \o "x"
    ELSE IF model_type = "Denoising" THEN "_denoised"
    ELSE "_enhanced"

\* format!("{}{}.png", output_filename, suffix)
OutputFileName(stem, model_type, scale) == stem \o Suffix(model_type, scale) \o ".png"

\* the digits of n, filled with zeros on the left up to width
ZeroPad(n, width) ==
    LET digits == ToString(n)
    IN  IF Len(digits) >= width THEN digits
        ELSE SubSeq("000000", 1, width - Len(digits)) \o digits

\* the stem of the n-th file of ffmpeg's frame_%06d.png, main.rs:1733
FrameStem(n) == "frame_" \o ZeroPad(n, 6)

(***************************************************************************)
(* One whole call of process_single_image (main.rs:1354-1538) on a file    *)
(* item = [kind, w, h] with profile model; modelFile is the state of       *)
(* ./models/<name>.onnx when the session is created.  The result is        *)
(* [ok, stage] with the output dimensions when ok.                         *)
(***************************************************************************)
Failure(stage) == [ok |-> FALSE, stage |-> stage, output_dims |-> <<0, 0>>]

\* if padded_w == 0 || padded_h == 0 { return Err(..) }, main.rs:1445-1447
PaddedDimsUnchecked(dims) == TRUE

PaddedDimsValid(dims) == dims[1] # 0 /\ dims[2] # 0

ImageStages(item, model) ==
    IF item.kind = "corrupt"
    THEN Failure("open")
    ELSE LET work   == WorkingDims(item.w, item.h, model.min_dimension)
             padded == Padded(work[1], work[2], model.window_size)
         IN  IF ~PaddedDimsValid(padded.dims)
             THEN Failure("dimensions")
             ELSE [ok |-> TRUE, stage |-> "saved",
                   output_dims |-> FinalDims(work, padded, model.scale)]

\* Session::builder()...commit_from_file(&model_path), main.rs:1374-1396
SessionLoads(modelFile) == modelFile = "complete"

\* download_model run to its end without interference (main.rs:1613-1644):
\* the state of the model file afterwards, "failed" when it returns Err
DownloadModel(url, net) ==
    IF url = "local" THEN "absent"
    ELSE IF url = "invalid" \/ ~net THEN "failed"
    ELSE "complete"

(***************************************************************************)
(* State.                                                                  *)
(***************************************************************************)
VARIABLES
    \* one call of process_single_image, stage by stage
    pItem,      \* the input file: [kind, w, h] and the model profile [m]
    ppc,        \* the stage the call has reached
    pWork,      \* dimensions of img after the size policy
    pResized,   \* whether resize_exact was called
    pPadded,    \* padded_img: [image, dims, pads]
    pTensor,    \* shape of input_tensor
    pOutput,    \* shape of the output tensor of session.run
    pImage,     \* dimensions of the image decoded from the output tensor
    pFinal,     \* dimensions of final_img after the crop
    pSaved,     \* name of the file written, "" if none
    pTrace,     \* the stages that have run, in order
    pRet,       \* what the call returned
    \* one call of process_images
    files,      \* the input list: a sequence of files [kind, w, h]
    bModel,     \* index of the model profile
    bNet,       \* whether the download address serves the model
    bModelFile, \* state of ./models/<name>.onnx
    bpc,        \* position in process_images
    bIdx,       \* loop index (1-based)
    results,    \* the Vec<ProcessResult> being built
    bCalls,     \* per file: calls of process_single_image so far
    bOutcome,   \* per file: "none", "ok" or the failing stage
    outDir,     \* the files written to output_dir
    fileNames,  \* the file name of each entry of the input list
    bRet,       \* the value returned to the caller
    \* one call of process_video_blocking after another
    vModel,     \* index of the model profile
    vNet,       \* whether the download address serves the model
    vShape,     \* frame size of the source video
    vpc,        \* position in process_video_blocking
    tempFrames,     \* ./temp_frames: [exists, files], a file is [idx, kind, cur]
    tempUpscaled,   \* ./temp_upscaled: [exists, files], a file is [idx, cur]
    frameFiles, \* frame_files: the sorted list of extracted frames
    fpc,        \* per listed frame: position of its closure in the pool
    fFd,        \* per listed frame: inode of the open .part file, 0 if none
    fOutcome,   \* per listed frame: "none", "ok" or the failing stage
    partIno,    \* inode at ./models/<name>.part, 0 if the path is absent
    finalIno,   \* inode at ./models/<name>.onnx, 0 if the path is absent
    inoData,    \* per inode: "free", "partial" or "complete"
    encodeInvoked,  \* whether the reassembly ffmpeg process was started
    vRet,       \* the value returned to the caller
    tools,      \* what the external tools did in this run: exit status of
                \* the extraction and number of frames it wrote, exit status
                \* and stderr of the reassembly, the ffmpeg build asked for
                \* its codec list
    ffmpegArgs, \* the encoder arguments of the reassembly invocation
    diag,       \* the diagnostics printed about the choice of codecs
    \* one call of a function of main.rs on its own
    uFn,        \* the function called
    uArgs,      \* its arguments
    uRet,       \* the value it returned
    \* the fields of App that update reads and writes, and the Command
    \* that is running
    input_type,       \* "None", "File", "Folder" or "Video"
    image_files,      \* the image files selected, a sequence of paths
    process_results,  \* the ProcessResults installed, by input_path
    processing,       \* whether a Command of Process or ProcessVideo runs
    inFlight          \* the Command that runs and the files it was given

stageVars == <<pPadded, pTensor, pOutput, pImage, pFinal, pSaved>>

pipeVars == <<pItem, ppc, pWork, pResized, stageVars, pTrace, pRet>>

batchVars == <<files, bModel, bNet, bModelFile, bpc, bIdx, results, bCalls,
               bOutcome, outDir, bRet, fileNames>>

poolVars == <<frameFiles, fpc, fFd, fOutcome, partIno, finalIno, inoData,
              tempUpscaled, vModel, vNet>>

envVars == <<tools, ffmpegArgs, diag>>

videoVars == <<vShape, vpc, tempFrames, encodeInvoked, vRet, envVars>>

unitVars == <<uFn, uArgs, uRet>>

guiVars == <<input_type, image_files, process_results, processing, inFlight>>

vars == <<pipeVars, batchVars, poolVars, videoVars, unitVars, guiVars>>

\* what a step of one entry point leaves alone
notPipe == <<batchVars, poolVars, videoVars, unitVars, guiVars>>
notBatch == <<pipeVars, poolVars, videoVars, unitVars, guiVars>>
notVideo == <<pipeVars, batchVars, unitVars, guiVars>>
notUnit == <<pipeVars, batchVars, poolVars, videoVars, guiVars>>
notGui == <<pipeVars, batchVars, poolVars, videoVars, unitVars>>

(***************************************************************************)
(* process_single_image, stage by stage (main.rs:1354-1538).               *)
(***************************************************************************)
ExampleDims == {300, 1000}

DimValues ==
    (1..MaxSmallDim) \cup ((WorkingCap - CapMargin)..MaxLargeDim) \cup ExampleDims

\* the profiles the pipeline is run with: one per kind of size constraint
PipelineModels == {1, 3, 10}

NoReturn == [tag |-> "none"]

\* Err(..) returned by a stage of process_single_image
PErr(stage) == [tag |-> "Err", value |-> stage]

PipelineItems ==
    [kind : {"good"}, w : DimValues, h : DimValues, m : PipelineModels]
    \cup [kind : {"corrupt"}, w : {0}, h : {0}, m : PipelineModels]

NoShape == <<0, 0, 0, 0>>

\* nothing of the stages after the size policy has happened
StagesIdle ==
    /\ pPadded = [image |-> "none", dims |-> <<0, 0>>, pads |-> <<0, 0>>]
    /\ pTensor = NoShape
    /\ pOutput = NoShape
    /\ pImage = <<0, 0>>
    /\ pFinal = <<0, 0>>
    /\ pSaved = ""

PipeInit ==
    /\ pItem \in PipelineItems
    /\ ppc = "start"
    /\ pWork = <<0, 0>>
    /\ pResized = FALSE
    /\ StagesIdle
    /\ pTrace = <<>>
    /\ pRet = NoReturn

\* a run of another entry point leaves the stage-by-stage call untouched
PipeIdle ==
    /\ pItem = [kind |-> "good", w |-> 1, h |-> 1, m |-> 1]
    /\ ppc = "idle"
    /\ pWork = <<0, 0>>
    /\ pResized = FALSE
    /\ StagesIdle
    /\ pTrace = <<>>
    /\ pRet = NoReturn

\* image::open(input_path), main.rs:1399-1405
OpenImage ==
    /\ ppc = "start"
    /\ ppc' = IF pItem.kind = "corrupt" THEN "failed" ELSE "loaded"
    /\ pTrace' = Append(pTrace, "load")
    /\ pRet' = IF pItem.kind = "corrupt" THEN PErr("load") ELSE pRet
    /\ UNCHANGED <<pItem, pWork, pResized>>
    /\ UNCHANGED stageVars
    /\ UNCHANGED notPipe

\* the size policy and resize_exact, main.rs:1407-1432
ResizeImage ==
    /\ ppc = "loaded"
    /\ LET minDimension == ModelTable[pItem.m].min_dimension
       IN  IF NeedsResize(pItem.w, pItem.h, minDimension)
           THEN /\ pWork' = TargetDim(pItem.w, pItem.h, minDimension)
                /\ pResized' = TRUE
           ELSE /\ pWork' = <<pItem.w, pItem.h>>
                /\ pResized' = FALSE
    /\ ppc' = "sized"
    /\ pTrace' = Append(pTrace, "resize")
    /\ UNCHANGED <<pItem, pRet>>
    /\ UNCHANGED stageVars
    /\ UNCHANGED notPipe

(***************************************************************************)
(* The stages of process_single_image after the size policy                *)
(* (main.rs:1434-1526), run on small images with every profile of the      *)
(* table, the session being loaded.                                        *)
(***************************************************************************)
StageItems ==
    [kind : {"good"}, w : 1..MaxStageDim, h : 1..MaxStageDim, m : DOMAIN ModelTable]
    \cup {[kind |-> "good", w |-> d[1], h |-> d[2], m |-> i] :
              d \in {<<32, 32>>, <<1000, 300>>, <<1000, 1>>}, i \in DOMAIN ModelTable}

StagesInit ==
    /\ pItem \in StageItems
    /\ ppc = "sized"
    /\ pWork = WorkingDims(pItem.w, pItem.h, ModelTable[pItem.m].min_dimension)
    /\ pResized = NeedsResize(pItem.w, pItem.h, ModelTable[pItem.m].min_dimension)
    /\ StagesIdle
    /\ pTrace = <<"load", "resize">>
    /\ pRet = NoReturn

\* the files and profiles one whole call of process_single_image is run with
CallItems ==
    StageItems \cup [kind : {"corrupt"}, w : {0}, h : {0}, m : DOMAIN ModelTable]

CallInit ==
    /\ pItem \in CallItems
    /\ ppc = "start"
    /\ pWork = <<0, 0>>
    /\ pResized = FALSE
    /\ StagesIdle
    /\ pTrace = <<>>
    /\ pRet = NoReturn

\* the padding and the test of the padded dimensions, main.rs:1434-1447
PadImage ==
    /\ ppc = "sized"
    /\ pPadded' = Padded(pWork[1], pWork[2], ModelTable[pItem.m].window_size)
    /\ ppc' = IF PaddedDimsValid(pPadded'.dims) THEN "padded" ELSE "failed"
    /\ pRet' = IF PaddedDimsValid(pPadded'.dims) THEN pRet ELSE PErr("pad")
    /\ pTrace' = Append(pTrace, "pad")
    /\ UNCHANGED <<pItem, pWork, pResized, pTensor, pOutput, pImage, pFinal, pSaved>>
    /\ UNCHANGED notPipe

\* preprocess_image_for_model(&padded_img, model), main.rs:1453-1462
EncodeTensor ==
    /\ ppc = "padded"
    /\ pTensor' = PreprocessImageForModel(pPadded.dims, ModelTable[pItem.m])
    /\ ppc' = "encoded"
    /\ pTrace' = Append(pTrace, "encode")
    /\ pRet' = pRet
    /\ UNCHANGED <<pItem, pWork, pResized, pPadded, pOutput, pImage, pFinal, pSaved>>
    /\ UNCHANGED notPipe

\* the channel counts the output tensor of a model may have
OutputChannels == {1, 3, 4}

\* the shapes session.run may return for a padded input of size dims: the
\* engine and the model file are opaque, the spatial size is scale times
\* that of the input, in either layout and with any channel count
EngineOutputs(dims, scale) ==
    {<<1, c, dims[2] * scale, dims[1] * scale>> : c \in OutputChannels}
    \cup {<<1, dims[2] * scale, dims[1] * scale, 3>>}

\* session.run and the extraction of the output tensor, main.rs:1464-1492
RunInference ==
    /\ ppc = "encoded"
    /\ \/ /\ ppc' = "failed"
          /\ pRet' = PErr("infer")
          /\ UNCHANGED pOutput
       \/ /\ pOutput' \in EngineOutputs(pPadded.dims, ModelTable[pItem.m].scale)
          /\ ppc' = "inferred"
          /\ pRet' = pRet
    /\ pTrace' = Append(pTrace, "infer")
    /\ UNCHANGED <<pItem, pWork, pResized, pPadded, pTensor, pImage, pFinal, pSaved>>
    /\ UNCHANGED notPipe

\* postprocess_tensor_for_model(output_array, model), main.rs:1494-1498
DecodeTensor ==
    /\ ppc = "inferred"
    /\ LET r == PostprocessTensorForModel(pOutput)
       IN  /\ ppc' = IF r.tag = "Ok" THEN "decoded" ELSE "panicked"
           /\ pImage' = r.dims
    /\ pTrace' = Append(pTrace, "decode")
    /\ pRet' = pRet
    /\ UNCHANGED <<pItem, pWork, pResized, pPadded, pTensor, pOutput, pFinal, pSaved>>
    /\ UNCHANGED notPipe

\* the crop of the padding, main.rs:1500-1508
CropImage ==
    /\ ppc = "decoded"
    /\ pFinal' = CropPadding(pWork, pPadded.pads, ModelTable[pItem.m].scale, pImage)
    /\ ppc' = "cropped"
    /\ pTrace' = Append(pTrace, "crop")
    /\ pRet' = pRet
    /\ UNCHANGED <<pItem, pWork, pResized, pPadded, pTensor, pOutput, pImage, pSaved>>
    /\ UNCHANGED notPipe

\* final_img.save(&output_path), main.rs:1510-1526
SaveImage ==
    /\ ppc = "cropped"
    /\ \/ /\ ppc' = "failed"
          /\ pRet' = PErr("save")
          /\ UNCHANGED pSaved
       \/ /\ pSaved' = OutputFileName("photo", ModelTable[pItem.m].model_type,
                                      ModelTable[pItem.m].scale)
          /\ ppc' = "saved"
          /\ pRet' = [tag |-> "Ok", value |-> [output_path |-> pSaved',
                                                input_dims |-> <<pItem.w, pItem.h>>,
                                                output_dims |-> pFinal]]
    /\ pTrace' = Append(pTrace, "save")
    /\ UNCHANGED <<pItem, pWork, pResized, pPadded, pTensor, pOutput, pImage, pFinal>>
    /\ UNCHANGED notPipe

(***************************************************************************)
(* process_images (main.rs:1541-1586).                                     *)
(***************************************************************************)
ItemShapes == {<<32, 32>>, <<1000, 300>>, <<1000, 1>>}

BatchItems ==
    {[kind |-> "good", w |-> d[1], h |-> d[2]] : d \in ItemShapes}
    \cup {[kind |-> "corrupt", w |-> 0, h |-> 0]}

\* profiles a batch is run with: a downloadable one, the one with a minimum
\* dimension, the one without an address and a local one
BatchModels == {1, 9, 10, 11}

FileLists == UNION {[1..n -> BatchItems] : n \in 1..MaxFiles}

\* the image files a folder may hold, in the order of files.sort()
FolderFiles == <<"a.jpg", "a.png", "b.png", "c.png">>

\* the lists of n files that FolderSelected builds from a folder,
\* main.rs:743-763: distinct paths, sorted
FolderListings(n) ==
    {[i \in 1..n |-> FolderFiles[s[i]]] :
        s \in {t \in [1..n -> 1..Len(FolderFiles)] :
                  \A i, j \in 1..n : i < j => t[i] < t[j]}}

\* input_path.file_stem(), main.rs:1510-1513: the name up to its last dot
FileStem(name) ==
    LET dots == {i \in 1..Len(name) : SubSeq(name, i, i) = "."}
    IN  IF dots = {} THEN name
        ELSE SubSeq(name, 1, (CHOOSE i \in dots : \A j \in dots : j <= i) - 1)

BatchInit ==
    /\ files \in FileLists
    /\ fileNames \in FolderListings(Len(files))
    /\ bModel \in BatchModels
    /\ bNet \in BOOLEAN
    /\ bModelFile \in {"absent", "complete"}
    /\ bpc = "ort_init"
    /\ bIdx = 1
    /\ results = <<>>
    /\ bCalls = [i \in 1..Len(files) |-> 0]
    /\ bOutcome = [i \in 1..Len(files) |-> "none"]
    /\ outDir = {}
    /\ bRet = NoReturn

BatchIdle ==
    /\ files = <<>>
    /\ fileNames = <<>>
    /\ bModel = 1
    /\ bNet = TRUE
    /\ bModelFile = "absent"
    /\ bpc = "idle"
    /\ bIdx = 1
    /\ results = <<>>
    /\ bCalls = <<>>
    /\ bOutcome = <<>>
    /\ outDir = {}
    /\ bRet = NoReturn

\* ort::init().commit(), main.rs:1547-1551
BatchOrtInit ==
    /\ bpc = "ort_init"
    /\ \E ok \in BOOLEAN :
         IF ok
         THEN bpc' = "mkdir" /\ bRet' = bRet
         ELSE bpc' = "done" /\ bRet' = [tag |-> "Err", value |-> "ort"]
    /\ UNCHANGED <<files, bModel, bNet, bModelFile, bIdx, results, bCalls,
                   bOutcome, outDir, fileNames>>
    /\ UNCHANGED notBatch

\* std::fs::create_dir_all(&output_dir), main.rs:1553-1556
BatchCreateDir ==
    /\ bpc = "mkdir"
    /\ \E ok \in BOOLEAN :
         IF ok
         THEN bpc' = "loop" /\ bRet' = bRet
         ELSE bpc' = "done" /\ bRet' = [tag |-> "Err", value |-> "create_dir"]
    /\ UNCHANGED <<files, bModel, bNet, bModelFile, bIdx, results, bCalls,
                   bOutcome, outDir, fileNames>>
    /\ UNCHANGED notBatch

\* the model file after the exists check and download of main.rs:1364-1372
ModelFileAfterCheck(modelFile, url, net) ==
    IF modelFile # "absent" THEN modelFile ELSE DownloadModel(url, net)

\* the whole call process_single_image(&file_path, &model, &output_dir)
ProcessSingleImage(item, model, modelFile, net) ==
    LET after == ModelFileAfterCheck(modelFile, model.url, net)
    IN  IF after = "failed" THEN Failure("download")
        ELSE IF ~SessionLoads(after) THEN Failure("session")
        ELSE ImageStages(item, model)

\* ProcessResult { input_path, output_path, input_dims, output_dims, .. }
ProcessResult(i, item, r) ==
    [input_path |-> i,
     output_path |-> OutputFileName(FileStem(fileNames[i]), ModelTable[bModel].model_type,
                                    ModelTable[bModel].scale),
     input_dims |-> <<item.w, item.h>>, output_dims |-> r.output_dims]

\* final_img.save(&output_path) into output_dir: a file of the same name is
\* replaced, main.rs:1520-1526
SaveInto(dir, result) ==
    {f \in dir : f.name # result.output_path}
    \cup {[name |-> result.output_path, from |-> result.input_path]}

\* results.push(result), main.rs:1569
PushFront(rs, r) == <<r>> \o rs

Push(rs, r) == Append(rs, r)

\* the loop goes on to the next file whatever the outcome, main.rs:1561-1576
AbortOnError(idx, r) == IF r.ok THEN idx + 1 ELSE Len(files) + 1

NextIndex(idx, r) == idx + 1

\* one iteration of the loop of main.rs:1561-1576
BatchProcessItem ==
    /\ bpc = "loop"
    /\ bIdx <= Len(files)
    /\ LET item  == files[bIdx]
           model == ModelTable[bModel]
           after == ModelFileAfterCheck(bModelFile, model.url, bNet)
           r     == ProcessSingleImage(item, model, bModelFile, bNet)
       IN  /\ bCalls' = [bCalls EXCEPT ![bIdx] = @ + 1]
           /\ bModelFile' = IF after = "failed" THEN bModelFile ELSE after
           /\ bOutcome' = [bOutcome EXCEPT ![bIdx] = IF r.ok THEN "ok" ELSE r.stage]
           /\ IF r.ok
              THEN /\ results' = Push(results, ProcessResult(bIdx, item, r))
                   /\ outDir' = SaveInto(outDir, ProcessResult(bIdx, item, r))
              ELSE UNCHANGED <<results, outDir>>
           /\ bIdx' = NextIndex(bIdx, r)
    /\ UNCHANGED <<files, bModel, bNet, bpc, bRet, fileNames>>
    /\ UNCHANGED notBatch

\* Ok(results), main.rs:1578-1579
BatchReturn ==
    /\ bpc = "loop"
    /\ bIdx > Len(files)
    /\ bpc' = "done"
    /\ bRet' = [tag |-> "Ok", value |-> results]
    /\ UNCHANGED <<files, bModel, bNet, bModelFile, bIdx, results, bCalls,
                   bOutcome, outDir, fileNames>>
    /\ UNCHANGED notBatch

(***************************************************************************)
(* The files ./models/<name>.part and ./models/<name>.onnx as the          *)
(* closures of the pool see them: paths name inodes, an open File keeps    *)
(* its inode whatever happens to the path.                                 *)
(***************************************************************************)
Inodes == 1..(MaxFrames + 1)

\* inodes named by no path and no open file are released
Release(data, part, final, fds) ==
    [i \in Inodes |->
        IF i = part \/ i = final \/ \E f \in DOMAIN fds : fds[f] = i
        THEN data[i] ELSE "free"]

FreeInode == CHOOSE i \in Inodes : inoData[i] = "free" /\ \A j \in Inodes : inoData[j] = "free" => i <= j

ModelFileState == IF finalIno = 0 THEN "absent" ELSE inoData[finalIno]

FsAbsent ==
    /\ partIno = 0 /\ finalIno = 0
    /\ inoData = [i \in Inodes |-> "free"]

FsComplete ==
    /\ partIno = 0 /\ finalIno = 1
    /\ inoData = [i \in Inodes |-> IF i = 1 THEN "complete" ELSE "free"]

(***************************************************************************)
(* The closure of frame_files.par_iter().for_each (main.rs:1770-1780),     *)
(* one per listed frame, run by the threads of the rayon pool.  Frame k is *)
(* the k-th entry of frame_files.                                          *)
(***************************************************************************)
Frames == 1..Len(frameFiles)

Running == {k \in Frames : fpc[k] \notin {"pending", "done"}}

Resolve(k, outcome) ==
    /\ fpc' = [fpc EXCEPT ![k] = "done"]
    /\ fOutcome' = [fOutcome EXCEPT ![k] = outcome]

\* a thread of the pool takes the frame and enters process_single_image:
\* Path::new(&model_path).exists() and download_model up to the response,
\* main.rs:1364-1367 and 1613-1632
StartFrame(k) ==
    /\ vpc = "frames"
    /\ fpc[k] = "pending"
    /\ Cardinality(Running) < NumThreads
    /\ LET url == ModelTable[vModel].url
       IN  IF finalIno # 0 \/ url = "local"
           THEN fpc' = [fpc EXCEPT ![k] = "session"] /\ fOutcome' = fOutcome
           ELSE IF url = "invalid" \/ ~vNet
           THEN Resolve(k, "download")
           ELSE fpc' = [fpc EXCEPT ![k] = "create"] /\ fOutcome' = fOutcome
    /\ UNCHANGED <<frameFiles, fFd, partIno, finalIno, inoData,
                   tempUpscaled, vModel, vNet>>
    /\ UNCHANGED videoVars
    /\ UNCHANGED notVideo

\* fs::File::create(&tmp), main.rs:1634-1635: creates the file or truncates it
CreatePart(k) ==
    /\ vpc = "frames"
    /\ fpc[k] = "create"
    /\ LET ino == IF partIno = 0 THEN FreeInode ELSE partIno
       IN  /\ partIno' = ino
           /\ inoData' = [inoData EXCEPT ![ino] = "partial"]
           /\ fFd' = [fFd EXCEPT ![k] = ino]
    /\ fpc' = [fpc EXCEPT ![k] = "copy"]
    /\ UNCHANGED <<frameFiles, fOutcome, finalIno, tempUpscaled, vModel, vNet>>
    /\ UNCHANGED videoVars
    /\ UNCHANGED notVideo

\* io::copy(&mut resp, &mut out), main.rs:1637
CopyBody(k) ==
    /\ vpc = "frames"
    /\ fpc[k] = "copy"
    /\ inoData' = [inoData EXCEPT ![fFd[k]] = "complete"]
    /\ fpc' = [fpc EXCEPT ![k] = "rename"]
    /\ UNCHANGED <<frameFiles, fFd, fOutcome, partIno, finalIno,
                   tempUpscaled, vModel, vNet>>
    /\ UNCHANGED videoVars
    /\ UNCHANGED notVideo

\* fs::rename(&tmp, path)? and the end of download_model, main.rs:1639-1643
RenamePart(k) ==
    /\ vpc = "frames"
    /\ fpc[k] = "rename"
    /\ fFd' = [fFd EXCEPT ![k] = 0]
    /\ IF partIno = 0
       THEN /\ Resolve(k, "download")
            /\ UNCHANGED <<partIno, finalIno>>
            /\ inoData' = Release(inoData, partIno, finalIno, fFd')
       ELSE /\ fpc' = [fpc EXCEPT ![k] = "session"]
            /\ fOutcome' = fOutcome
            /\ finalIno' = partIno
            /\ partIno' = 0
            /\ inoData' = Release(inoData, 0, partIno, fFd')
    /\ UNCHANGED <<frameFiles, tempUpscaled, vModel, vNet>>
    /\ UNCHANGED videoVars
    /\ UNCHANGED notVideo

\* the file written by final_img.save(&output_path), main.rs:1510-1526
SaveOutput(dir, frame, r) ==
    [dir EXCEPT !.files = {u \in @ : u.idx # frame.idx}
                          \cup {[idx |-> frame.idx, cur |-> frame.cur, dims |-> r.output_dims,
                                  name |-> OutputFileName(FrameStem(frame.idx),
                                                          ModelTable[vModel].model_type,
                                                          ModelTable[vModel].scale)]}]

\* Session::builder()...commit_from_file(&model_path) and the rest of
\* process_single_image, main.rs:1374-1538, with the match of
\* main.rs:1771-1779
RunImage(k) ==
    /\ vpc = "frames"
    /\ fpc[k] = "session"
    /\ LET r == IF SessionLoads(ModelFileState)
                THEN ImageStages(frameFiles[k], ModelTable[vModel])
                ELSE Failure("session")
       IN  /\ Resolve(k, IF r.ok THEN "ok" ELSE r.stage)
           /\ tempUpscaled' = IF r.ok THEN SaveOutput(tempUpscaled, frameFiles[k], r)
                               ELSE tempUpscaled
    /\ UNCHANGED <<frameFiles, fFd, partIno, finalIno, inoData, vModel, vNet>>
    /\ UNCHANGED videoVars
    /\ UNCHANGED notVideo

\* for_each returning as soon as no frame is left to hand out
NoFramePending == \A k \in DOMAIN fpc : fpc[k] # "pending"

\* par_iter().for_each returns when every closure has returned
AllFramesResolved == \A k \in Frames : fpc[k] = "done"

(***************************************************************************)
(* process_video_blocking (main.rs:1702-1947).                             *)
(***************************************************************************)
VideoShapes == {<<32, 32>>, <<1000, 300>>}

\* profiles a video is run with: a downloadable one, the one without an
\* address and a local one
VideoModels == {1, 9, 11}

NoDir == [exists |-> FALSE, files |-> {}]

VErr(what) == [tag |-> "Err", value |-> what]

\* a build of ffmpeg: the encoders it has and whether it decodes H.264
NoBuild ==
    [spawns |-> FALSE, encoders |-> {}, decodes_h264 |-> FALSE, decodes_aac |-> FALSE]

\* no tool has run yet
NoTools == [extract |-> "none", extracted |-> 0, reassemble |-> "none",
            stderr |-> "", build |-> NoBuild, fps_str |-> "", has_audio |-> FALSE]

EnvIdle ==
    /\ tools = NoTools
    /\ ffmpegArgs = <<>>
    /\ diag = {}

PoolIdle ==
    /\ frameFiles = <<>>
    /\ fpc = <<>>
    /\ fFd = <<>>
    /\ fOutcome = <<>>

VideoInit ==
    /\ vModel \in VideoModels
    /\ vNet \in BOOLEAN
    /\ vShape \in VideoShapes
    /\ vpc = "start"
    /\ tempFrames = NoDir
    /\ tempUpscaled = NoDir
    /\ PoolIdle
    /\ FsAbsent \/ FsComplete
    /\ encodeInvoked = FALSE
    /\ vRet = NoReturn
    /\ EnvIdle

VideoIdle ==
    /\ vModel = 1
    /\ vNet = TRUE
    /\ vShape = <<32, 32>>
    /\ vpc = "idle"
    /\ tempFrames = NoDir
    /\ tempUpscaled = NoDir
    /\ PoolIdle
    /\ FsAbsent
    /\ encodeInvoked = FALSE
    /\ vRet = NoReturn
    /\ EnvIdle

(***************************************************************************)
(* The frame rate handed to ffmpeg (main.rs:1805-1824), computed from the  *)
(* trimmed stdout of ffprobe.                                              *)
(***************************************************************************)
\* str.contains(pat)
Contains(str, pat) ==
    \E i \in 1..(Len(str) - Len(pat) + 1) : SubSeq(str, i, i + Len(pat) - 1) = pat

DigitChars == <<"0", "1", "2", "3", "4", "5", "6", "7", "8", "9">>

IsDigit(c) == \E d \in 1..10 : DigitChars[d] = c

DigitValue(c) == (CHOOSE d \in 1..10 : DigitChars[d] = c) - 1

RECURSIVE DigitsValue(_)
DigitsValue(s) ==
    IF Len(s) = 0 THEN 0
    ELSE 10 * DigitsValue(SubSeq(s, 1, Len(s) - 1)) + DigitValue(SubSeq(s, Len(s), Len(s)))

\* parts[i].parse::<f64>() on the strings ffprobe prints: a run of decimal
\* digits parses to its value, the empty string and words do not parse
ParseF64(s) ==
    IF Len(s) > 0 /\ \A i \in 1..Len(s) : IsDigit(SubSeq(s, i, i))
    THEN [tag |-> "Ok", value |-> DigitsValue(s)]
    ELSE [tag |-> "Err", value |-> 0]

\* fps_str.split('/').collect(): the pieces between the slashes
RECURSIVE SplitSlash(_)
SplitSlash(s) ==
    IF \A i \in 1..Len(s) : SubSeq(s, i, i) # "/" THEN <<s>>
    ELSE LET i == CHOOSE j \in 1..Len(s) :
                      /\ SubSeq(s, j, j) = "/"
                      /\ \A k \in 1..(j - 1) : SubSeq(s, k, k) # "/"
         IN  <<SubSeq(s, 1, i - 1)>> \o SplitSlash(SubSeq(s, i + 1, Len(s)))

\* format!("{:.3}", num / den) of two non-negative whole f64: the quotient
\* to the nearest thousandth; a division by zero is inf, or NaN for 0/0
FormatQuotient3(num, den) ==
    IF den = 0 THEN (IF num = 0 THEN "NaN" ELSE "inf")
    ELSE LET thousandths == (2 * 1000 * num + den) \div (2 * den)
         IN  ToString(thousandths \div 1000) \o "." \o ZeroPad(thousandths % 1000, 3)

\* let fps = if fps_str.is_empty() {..} else if fps_str.contains('/') {..}
FrameRate(fps_str) ==
    IF fps_str = "" THEN "30"
    ELSE IF Contains(fps_str, "/")
    THEN LET parts == SplitSlash(fps_str)
         IN  IF Len(parts) = 2
             THEN LET num == ParseF64(parts[1])
                      den == ParseF64(parts[2])
                  IN  IF num.tag = "Ok" /\ den.tag = "Ok"
                      THEN FormatQuotient3(num.value, den.value)
                      ELSE fps_str
             ELSE fps_str
    ELSE fps_str

(***************************************************************************)
(* check_codec_available (main.rs:1691-1700) and the choice of the video   *)
(* encoder (main.rs:1891-1917).  `ffmpeg -codecs` prints one line per      *)
(* codec: flags (D decodes, E encodes), the codec name, its description    *)
(* and the decoders and encoders that implement it.                        *)
(***************************************************************************)
H264Encoders == {"libx264", "h264_nvenc"}

\* the builds of ffmpeg a run may meet: with libx264 and both audio
\* encoders, with a hardware H.264 encoder only and no AAC, decoding H.264
\* without encoding it, without H.264, decoding AAC without encoding it,
\* and an ffmpeg that cannot be started
Builds ==
    {[spawns |-> TRUE, encoders |-> {"libx264", "mpeg4", "aac", "libmp3lame"},
      decodes_h264 |-> TRUE, decodes_aac |-> TRUE],
     [spawns |-> TRUE, encoders |-> {"h264_nvenc", "mpeg4", "libmp3lame"},
      decodes_h264 |-> TRUE, decodes_aac |-> FALSE],
     [spawns |-> TRUE, encoders |-> {"mpeg4"},
      decodes_h264 |-> TRUE, decodes_aac |-> FALSE],
     [spawns |-> TRUE, encoders |-> {"mpeg4"},
      decodes_h264 |-> FALSE, decodes_aac |-> FALSE],
     [spawns |-> TRUE, encoders |-> {"mpeg4", "libmp3lame"},
      decodes_h264 |-> FALSE, decodes_aac |-> TRUE],
     NoBuild}

\* the line of the H.264 codec, empty when the build knows nothing of it
H264Line(build) ==
    LET encodes == build.encoders \cap H264Encoders # {}
    IN  IF ~encodes /\ ~build.decodes_h264 THEN ""
        ELSE " " \o (IF build.decodes_h264 THEN "D" ELSE ".")
                 \o (IF encodes THEN "E" ELSE ".")
                 \o "V.LS h264 H.264 / AVC / MPEG-4 AVC / MPEG-4 part 10"
                 \o (IF build.decodes_h264 THEN " (decoders: h264 )" ELSE "")
                 \o (IF ~encodes THEN ""
                     ELSE " (encoders:"
                          \o (IF "libx264" \in build.encoders THEN " libx264 libx264rgb" ELSE "")
                          \o (IF "h264_nvenc" \in build.encoders THEN " h264_nvenc" ELSE "")
                          \o " )")
                 \o "\n"

Mpeg4Line(build) ==
    IF "mpeg4" \in build.encoders THEN " DEV.L. mpeg4 MPEG-4 part 2\n" ELSE ""

\* the line of the AAC codec, empty when the build knows nothing of it
AacLine(build) ==
    LET encodes == "aac" \in build.encoders
    IN  IF ~encodes /\ ~build.decodes_aac THEN ""
        ELSE " " \o (IF build.decodes_aac THEN "D" ELSE ".")
                 \o (IF encodes THEN "E" ELSE ".")
                 \o "AIL. aac AAC (Advanced Audio Coding)"
                 \o (IF build.decodes_aac THEN " (decoders: aac aac_fixed )" ELSE "")
                 \o "\n"

\* the line of the MP3 codec when libmp3lame is compiled in
Mp3Line(build) ==
    IF "libmp3lame" \in build.encoders
    THEN " DEAIL. mp3 MP3 (MPEG audio layer 3) (decoders: mp3float mp3 ) (encoders: libmp3lame )\n"
    ELSE ""

\* stdout of `ffmpeg -codecs`
CodecsList(build) ==
    "Codecs:\n" \o H264Line(build) \o Mpeg4Line(build) \o AacLine(build) \o Mp3Line(build)

\* check_codec_available(codec_name): false when ffmpeg cannot be started
CheckCodecAvailable(build, codec_name) ==
    build.spawns /\ Contains(CodecsList(build), codec_name)

\* let video_encoder = ..., main.rs:1892-1898
SelectVideoEncoder(build) ==
    IF CheckCodecAvailable(build, "libx264") THEN "libx264"
    ELSE IF CheckCodecAvailable(build, "h264") THEN "h264"
    ELSE "mpeg4"

\* the arguments of main.rs:1902-1917
VideoEncoderArgs(video_encoder) ==
    <<"-c:v", video_encoder>>
    \o (IF video_encoder = "libx264"
        THEN <<"-preset", "medium", "-crf", "18">>
        ELSE <<"-q:v", "2">>)

\* let audio_encoder = ..., main.rs:1866-1872
SelectAudioEncoder(build) ==
    IF CheckCodecAvailable(build, "aac") THEN "aac"
    ELSE IF CheckCodecAvailable(build, "libmp3lame") THEN "libmp3lame"
    ELSE "copy"

\* the arguments of main.rs:1864-1889
AudioArgs(has_audio, audio_encoder) ==
    IF has_audio
    THEN <<"-map", "1:a:0", "-c:a", audio_encoder>>
         \o (IF audio_encoder # "copy" THEN <<"-b:a", "192k">> ELSE <<>>)
    ELSE <<>>

\* every profile reassembled from frames named <stem>_enhanced.png
VideoSuffixPlain(model_type, scale) == "_enhanced"

\* let suffix = match model.model_type {..}, main.rs:1829-1833
VideoSuffix(model_type, scale) ==
    IF model_type \in {"Upscaling", "Enhancement"} /\ scale > 1
    THEN "_" \o ToString(scale) \o "x"
    ELSE IF model_type = "Denoising" THEN "_denoised"
    ELSE "_enhanced"

\* the sequence of frames ffmpeg is told to read, main.rs:1854
InputPattern(suffix) == "./temp_upscaled/frame_%06d" \o suffix \o ".png"

\* ffmpeg_args, main.rs:1851-1924
FfmpegArgs(fps, suffix, has_audio, build) ==
    <<"-y", "-framerate", fps, "-i", InputPattern(suffix), "-i", "video_path">>
    \o <<"-map", "0:v:0">>
    \o AudioArgs(has_audio, SelectAudioEncoder(build))
    \o VideoEncoderArgs(SelectVideoEncoder(build))
    \o <<"-pix_fmt", "yuv420p", "-movflags", "+faststart", "-r", fps, "output_path">>

\* what the first ffprobe prints for r_frame_rate in the runs of the video
\* pipeline
ProbedRates == {"", "30000/1001"}

\* what the reassembly ffmpeg may write to stderr when it fails
Stderrs == {"Unknown encoder 'h264'", "frame_%06d_4x.png: No such file or directory"}

\* the error without the text ffmpeg wrote
ReassembleErrorPlain(stderr) ==
    [tag |-> "Err", value |-> "reassemble", text |-> "Failed to reassemble video."]

\* Err(format!("Failed to reassemble video. FFmpeg error:\n{}", stderr)),
\* main.rs:1934-1938
ReassembleError(stderr) ==
    [tag |-> "Err", value |-> "reassemble",
     text |-> "Failed to reassemble video. FFmpeg error:\n" \o stderr]

\* return Err(..) or the ? operator: the function is left at once
ReturnErr(what) ==
    /\ vpc' = "done"
    /\ vRet' = VErr(what)

\* create_dir_all(&temp_frames)?; create_dir_all(&temp_upscaled)?,
\* main.rs:1706-1711
CreateTempDirs ==
    /\ vpc = "start"
    /\ \E r \in {"ok", "first_fails", "second_fails"} :
         /\ tempFrames' = IF r = "first_fails" THEN tempFrames
                           ELSE [tempFrames EXCEPT !.exists = TRUE]
         /\ tempUpscaled' = IF r = "ok" THEN [tempUpscaled EXCEPT !.exists = TRUE]
                             ELSE tempUpscaled
         /\ IF r = "ok"
            THEN vpc' = "extract" /\ vRet' = vRet
            ELSE ReturnErr("create_dir")
    /\ UNCHANGED <<vShape, encodeInvoked>>
    /\ UNCHANGED envVars
    /\ UNCHANGED <<frameFiles, fpc, fFd, fOutcome, partIno, finalIno, inoData,
                   vModel, vNet>>
    /\ UNCHANGED notVideo

\* the frame files ffmpeg writes: frame_000001.png .. frame_<n>.png, over
\* the files of the same names
ExtractedFiles(old, kinds) ==
    {x \in old : x.idx \notin DOMAIN kinds}
    \cup {[idx |-> i, kind |-> kinds[i], cur |-> TRUE] : i \in DOMAIN kinds}

FrameKinds(n) == [1..n -> {"good", "corrupt"}]

\* the extraction ffmpeg process and the test of its exit status,
\* main.rs:1727-1743
ExtractFrames ==
    /\ vpc = "extract"
    /\ \/ /\ ReturnErr("spawn_ffmpeg")
          /\ UNCHANGED <<tempFrames, tools>>
       \/ \E n \in 0..MaxFrames : \E kinds \in FrameKinds(n) : \E success \in BOOLEAN :
             /\ tempFrames' = [tempFrames EXCEPT !.files = ExtractedFiles(@, kinds)]
             /\ tools' = [tools EXCEPT !.extract = IF success THEN "success" ELSE "failure",
                                       !.extracted = n]
             /\ IF success
                THEN vpc' = "list" /\ vRet' = vRet
                ELSE ReturnErr("extract")
    /\ UNCHANGED <<vShape, encodeInvoked, ffmpegArgs, diag>>
    /\ UNCHANGED poolVars
    /\ UNCHANGED notVideo

\* the files of a directory as the list sorted by name
RECURSIVE SortedByIdx(_)
SortedByIdx(fs) ==
    IF fs = {} THEN <<>>
    ELSE LET first == CHOOSE x \in fs : \A y \in fs : x.idx <= y.idx
         IN  <<first>> \o SortedByIdx(fs \ {first})

\* a listed frame as the input of process_single_image
AsFrame(x) == [idx |-> x.idx, kind |-> x.kind, cur |-> x.cur,
               w |-> vShape[1], h |-> vShape[2]]

\* read_dir, the .png filter, sort and the empty test, main.rs:1745-1757
ListFrames ==
    /\ vpc = "list"
    /\ \/ /\ ReturnErr("read_dir")
          /\ UNCHANGED <<frameFiles, fpc, fFd, fOutcome>>
       \/ /\ tempFrames.files = {}
          /\ ReturnErr("no_frames")
          /\ UNCHANGED <<frameFiles, fpc, fFd, fOutcome>>
       \/ /\ tempFrames.files # {}
          /\ LET listed == SortedByIdx(tempFrames.files)
             IN  /\ frameFiles' = [k \in 1..Len(listed) |-> AsFrame(listed[k])]
                 /\ fpc' = [k \in 1..Len(listed) |-> "pending"]
                 /\ fFd' = [k \in 1..Len(listed) |-> 0]
                 /\ fOutcome' = [k \in 1..Len(listed) |-> "none"]
          /\ vpc' = "ort_init"
          /\ vRet' = vRet
    /\ UNCHANGED <<vShape, tempFrames, encodeInvoked>>
    /\ UNCHANGED envVars
    /\ UNCHANGED <<partIno, finalIno, inoData, tempUpscaled, vModel, vNet>>
    /\ UNCHANGED notVideo

\* ort::init().commit(), main.rs:1761-1762
VideoOrtInit ==
    /\ vpc = "ort_init"
    /\ \E ok \in BOOLEAN :
         IF ok THEN vpc' = "frames" /\ vRet' = vRet ELSE ReturnErr("ort")
    /\ UNCHANGED <<vShape, tempFrames, encodeInvoked>>
    /\ UNCHANGED envVars
    /\ UNCHANGED poolVars
    /\ UNCHANGED notVideo

\* for_each has returned: "Reassembling video...", main.rs:1780-1782
JoinFrames ==
    /\ vpc = "frames"
    /\ AllFramesResolved
    /\ vpc' = "probe"
    /\ UNCHANGED <<vShape, tempFrames, encodeInvoked, vRet>>
    /\ UNCHANGED envVars
    /\ UNCHANGED poolVars
    /\ UNCHANGED notVideo

\* the ffprobe calls and the construction of the arguments,
\* main.rs:1784-1926
ProbeStreams ==
    /\ vpc = "probe"
    /\ \/ /\ ReturnErr("spawn_ffprobe")
          /\ UNCHANGED envVars
       \/ \E fps_str \in ProbedRates, has_audio \in BOOLEAN, build \in Builds :
             LET model == ModelTable[vModel]
                 suffix == VideoSuffix(model.model_type, model.scale)
             IN  /\ tools' = [tools EXCEPT !.build = build, !.fps_str = fps_str,
                                            !.has_audio = has_audio]
                 /\ diag' = diag
                        \cup {"Using video codec: " \o SelectVideoEncoder(build)}
                        \cup (IF has_audio
                              THEN {"Using audio codec: " \o SelectAudioEncoder(build)}
                              ELSE {})
                 /\ ffmpegArgs' = FfmpegArgs(FrameRate(fps_str), suffix, has_audio, build)
                 /\ vpc' = "reassemble"
                 /\ vRet' = vRet
    /\ UNCHANGED <<vShape, tempFrames, encodeInvoked>>
    /\ UNCHANGED poolVars
    /\ UNCHANGED notVideo

\* the reassembly ffmpeg process, the test of its exit status and the
\* cleanup, main.rs:1928-1946
Reassemble ==
    /\ vpc = "reassemble"
    /\ \/ /\ ReturnErr("spawn_ffmpeg")
          /\ UNCHANGED <<encodeInvoked, tempFrames, tempUpscaled, tools>>
       \/ \E stderr \in Stderrs :
             /\ encodeInvoked' = TRUE
             /\ tools' = [tools EXCEPT !.reassemble = "failure", !.stderr = stderr]
             /\ vpc' = "done"
             /\ vRet' = ReassembleError(stderr)
             /\ UNCHANGED <<tempFrames, tempUpscaled>>
       \/ /\ tempUpscaled.files # {}
          /\ encodeInvoked' = TRUE
          /\ tools' = [tools EXCEPT !.reassemble = "success"]
          /\ tempFrames' = NoDir
          /\ tempUpscaled' = NoDir
          /\ vpc' = "done"
          /\ vRet' = [tag |-> "Ok", value |-> "output_path"]
    /\ UNCHANGED <<vShape, ffmpegArgs, diag>>
    /\ UNCHANGED <<frameFiles, fpc, fFd, fOutcome, partIno, finalIno, inoData,
                   vModel, vNet>>
    /\ UNCHANGED notVideo

\* the next call of process_video_blocking: what the calls before left in
\* the working directories and in ./models is still there
NextRun ==
    /\ vpc = "done"
    /\ vpc' = "start"
    /\ vRet' = NoReturn
    /\ encodeInvoked' = FALSE
    /\ tools' = NoTools
    /\ ffmpegArgs' = <<>>
    /\ diag' = {}
    /\ UNCHANGED vShape
    /\ tempFrames' = [tempFrames EXCEPT !.files = {[x EXCEPT !.cur = FALSE] : x \in @}]
    /\ tempUpscaled' = [tempUpscaled EXCEPT !.files = {[x EXCEPT !.cur = FALSE] : x \in @}]
    /\ frameFiles' = <<>>
    /\ fpc' = <<>>
    /\ fFd' = <<>>
    /\ fOutcome' = <<>>
    /\ UNCHANGED <<partIno, finalIno, inoData, vModel, vNet>>
    /\ UNCHANGED notVideo

(***************************************************************************)
(* Functions of main.rs called on their own: one call, from its arguments  *)
(* to the value it returns.                                                *)
(***************************************************************************)
PadCalls ==
    [fn : {"pad_to_multiple"},
     args : [w : 1..MaxPadDim, h : 1..MaxPadDim, multiple : 1..MaxMultiple]]

NormalizationRanges == {"ZeroOne", "MinusOneOne"}

NormalizeCalls ==
    [fn : {"normalize"}, args : [range : NormalizationRanges, val : 0..U8Max]]

ModelTypes == {"Upscaling", "Denoising", "Enhancement"}

SuffixCalls ==
    [fn : {"suffix"},
     args : [stem : {"photo", "frame_000001"}, model_type : ModelTypes,
             scale : 1..MaxScale]]

\* what ffprobe may print for r_frame_rate: nothing, a rational, a plain
\* number, a rational of an unknown rate, two lines, and text
FpsStrings ==
    {"", "30000/1001", "24000/1001", "25/1", "30/1", "15/2", "1/3", "30", "25",
     "0/0", "90000/0", "30/1\n30/1", "30/", "/", "N/A", "abc/def"}

FrameRateCalls == [fn : {"frame_rate"}, args : [fps_str : FpsStrings]]

PadPixelCalls ==
    [fn : {"pad_pixels"},
     args : [w : 1..MaxPadDim, h : 1..MaxPadDim, multiple : 1..MaxMultiple]]

UnitCalls ==
    PadCalls \cup NormalizeCalls \cup SuffixCalls \cup FrameRateCalls \cup PadPixelCalls

UnitInit ==
    /\ \E c \in UnitCalls : uFn = c.fn /\ uArgs = c.args
    /\ uRet = NoReturn

UnitIdle ==
    /\ uFn = "none"
    /\ uArgs = <<>>
    /\ uRet = NoReturn

Returned(fn) == uFn = fn /\ uRet # NoReturn

\* pad_to_multiple(&img, multiple), main.rs:1588-1611
CallPadToMultiple ==
    /\ uFn = "pad_to_multiple"
    /\ uRet = NoReturn
    /\ uRet' = [tag |-> "Ok",
                value |-> PadToMultiple(uArgs.w, uArgs.h, uArgs.multiple)]
    /\ UNCHANGED <<uFn, uArgs>>
    /\ UNCHANGED notUnit

\* normalize_fn on a pixel value and denormalize_fn on the result, for a
\* model whose input_norm and output_norm are the same range
CallNormalize ==
    /\ uFn = "normalize"
    /\ uRet = NoReturn
    /\ LET x == NormalizeFn(uArgs.range, uArgs.val)
       IN  uRet' = [tag |-> "Ok",
                    value |-> [encoded |-> x,
                               decoded |-> DenormalizeFn(uArgs.range, x)]]
    /\ UNCHANGED <<uFn, uArgs>>
    /\ UNCHANGED notUnit

\* the output file name of main.rs:1510-1520
CallSuffix ==
    /\ uFn = "suffix"
    /\ uRet = NoReturn
    /\ uRet' = [tag |-> "Ok",
                value |-> OutputFileName(uArgs.stem, uArgs.model_type, uArgs.scale)]
    /\ UNCHANGED <<uFn, uArgs>>
    /\ UNCHANGED notUnit

\* the frame rate of main.rs:1808-1824
CallFrameRate ==
    /\ uFn = "frame_rate"
    /\ uRet = NoReturn
    /\ uRet' = [tag |-> "Ok", value |-> FrameRate(uArgs.fps_str)]
    /\ UNCHANGED <<uFn, uArgs>>
    /\ UNCHANGED notUnit

\* the loop of pad_to_multiple that fills the returned image,
\* main.rs:1599-1610
CallPadPixels ==
    /\ uFn = "pad_pixels"
    /\ uRet = NoReturn
    /\ uRet' = [tag |-> "Ok", value |-> PadSources(uArgs.w, uArgs.h, uArgs.multiple)]
    /\ UNCHANGED <<uFn, uArgs>>
    /\ UNCHANGED notUnit

UnitNext ==
    CallPadToMultiple \/ CallNormalize \/ CallSuffix \/ CallFrameRate \/ CallPadPixels

(***************************************************************************)
(* App::update (main.rs:628-887): the messages that read or write          *)
(* image_files, process_results and processing.  The dialogs and the       *)
(* Commands run outside update; their results come back as messages.       *)
(***************************************************************************)
\* the image files the user may pick
ImagePaths == {"a.png", "b.png", "c.png"}

\* the folders the user may pick, with the image files read_dir finds in
\* them, sorted
FolderContents ==
    [photos |-> <<"photos/a.png", "photos/b.png">>, empty |-> <<>>]

NoCommand == [kind |-> "none", files |-> <<>>]

\* App::new, main.rs:604-621
GuiInit ==
    /\ input_type = "None"
    /\ image_files = <<>>
    /\ process_results = <<>>
    /\ processing = FALSE
    /\ inFlight = NoCommand

\* the window is not part of the run
GuiIdle ==
    /\ input_type = "Idle"
    /\ image_files = <<>>
    /\ process_results = <<>>
    /\ processing = FALSE
    /\ inFlight = NoCommand

\* Message::FileSelected(Some(path)), main.rs:720-742
FileSelected ==
    /\ input_type # "Idle"
    /\ \E path \in ImagePaths :
         /\ input_type' = "File"
         /\ image_files' = <<path>>
         /\ process_results' = <<>>
    /\ UNCHANGED <<processing, inFlight>>
    /\ UNCHANGED notGui

\* Message::FolderSelected(Some(path)), main.rs:743-792
FolderSelected ==
    /\ input_type # "Idle"
    /\ \E folder \in DOMAIN FolderContents :
         LET found == FolderContents[folder]
         IN  IF found = <<>>
             THEN UNCHANGED <<input_type, image_files, process_results>>
             ELSE /\ input_type' = "Folder"
                  /\ image_files' = found
                  /\ process_results' = <<>>
    /\ UNCHANGED <<processing, inFlight>>
    /\ UNCHANGED notGui

\* Message::VideoSelected(Some(path)), main.rs:643-651
VideoSelected ==
    /\ input_type # "Idle"
    /\ input_type' = "Video"
    /\ process_results' = <<>>
    /\ UNCHANGED <<image_files, processing, inFlight>>
    /\ UNCHANGED notGui

\* Message::Process with a model selected, main.rs:832-857
Process ==
    /\ input_type # "Idle"
    /\ ~(processing \/ image_files = <<>>)
    /\ processing' = TRUE
    /\ inFlight' = [kind |-> "process_images", files |-> image_files]
    /\ UNCHANGED <<input_type, image_files, process_results>>
    /\ UNCHANGED notGui

\* what process_images may return in Ok for the files it was given: one
\* ProcessResult per file that succeeded, in the order of the files
RECURSIVE Outcomes(_)
Outcomes(given) ==
    IF given = <<>> THEN {<<>>}
    ELSE LET rest == Outcomes(Tail(given))
         IN  rest \cup {<<[input_path |-> Head(given)]>> \o r : r \in rest}

\* Message::ProcessComplete(result), main.rs:858-883
ProcessComplete ==
    /\ inFlight.kind = "process_images"
    /\ processing' = FALSE
    /\ inFlight' = NoCommand
    /\ \/ \E returned \in Outcomes(inFlight.files) : process_results' = returned
       \/ UNCHANGED process_results
    /\ UNCHANGED <<input_type, image_files>>
    /\ UNCHANGED notGui

\* Message::ProcessVideo with a model selected, main.rs:653-676
ProcessVideo ==
    /\ input_type \notin {"Idle", "None"}
    /\ ~processing
    /\ processing' = TRUE
    /\ inFlight' = [kind |-> "process_video", files |-> <<>>]
    /\ UNCHANGED <<input_type, image_files, process_results>>
    /\ UNCHANGED notGui

\* Message::VideoProcessComplete(result), main.rs:678-689
VideoProcessComplete ==
    /\ inFlight.kind = "process_video"
    /\ processing' = FALSE
    /\ inFlight' = NoCommand
    /\ UNCHANGED <<input_type, image_files, process_results>>
    /\ UNCHANGED notGui

GuiNext ==
    \/ FileSelected \/ FolderSelected \/ VideoSelected
    \/ Process \/ ProcessComplete \/ ProcessVideo \/ VideoProcessComplete

PipeNext == OpenImage \/ ResizeImage

StagesNext ==
    PadImage \/ EncodeTensor \/ RunInference \/ DecodeTensor \/ CropImage \/ SaveImage

CallNext == PipeNext \/ StagesNext


VideoNext ==
    \/ CreateTempDirs \/ ExtractFrames \/ ListFrames \/ VideoOrtInit
    \/ (\E k \in Frames : StartFrame(k))
    \/ (\E k \in Frames : CreatePart(k))
    \/ (\E k \in Frames : CopyBody(k))
    \/ (\E k \in Frames : RenamePart(k))
    \/ (\E k \in Frames : RunImage(k))
    \/ JoinFrames \/ ProbeStreams \/ Reassemble \/ NextRun

BatchNext == BatchOrtInit \/ BatchCreateDir \/ BatchProcessItem \/ BatchReturn

PipelineInit == PipeInit /\ BatchIdle /\ VideoIdle /\ UnitIdle /\ GuiIdle

BatchSpecInit == BatchInit /\ PipeIdle /\ VideoIdle /\ UnitIdle /\ GuiIdle

VideoSpecInit == VideoInit /\ PipeIdle /\ BatchIdle /\ UnitIdle /\ GuiIdle

UnitSpecInit == UnitInit /\ PipeIdle /\ BatchIdle /\ VideoIdle /\ GuiIdle

StagesSpecInit == StagesInit /\ BatchIdle /\ VideoIdle /\ UnitIdle /\ GuiIdle

CallSpecInit == CallInit /\ BatchIdle /\ VideoIdle /\ UnitIdle /\ GuiIdle

GuiSpecInit == GuiInit /\ PipeIdle /\ BatchIdle /\ VideoIdle /\ UnitIdle

GuiSpec == GuiSpecInit /\ [][GuiNext]_vars

CallSpec == CallSpecInit /\ [][CallNext]_vars

PipelineSpec == PipelineInit /\ [][PipeNext]_vars

BatchSpec == BatchSpecInit /\ [][BatchNext]_vars

VideoSpec == VideoSpecInit /\ [][VideoNext]_vars

UnitSpec == UnitSpecInit /\ [][UnitNext]_vars

StagesSpec == StagesSpecInit /\ [][StagesNext]_vars

(***************************************************************************)
(* The same files given to the loop of process_images and to the pool of   *)
(* process_video_blocking, each with its own copy of ./models, both        *)
(* starting from the same state of the model file.                         *)
(***************************************************************************)
EquivInit ==
    /\ PipeIdle
    /\ UnitIdle
    /\ GuiIdle
    /\ \E n \in 1..MaxFrames : \E kinds \in FrameKinds(n) : \E shape \in ItemShapes :
         /\ vShape = shape
         /\ files = [i \in 1..n |-> IF kinds[i] = "corrupt"
                                     THEN [kind |-> "corrupt", w |-> 0, h |-> 0]
                                     ELSE [kind |-> "good", w |-> shape[1], h |-> shape[2]]]
         /\ frameFiles = [i \in 1..n |-> [idx |-> i, kind |-> kinds[i], cur |-> TRUE,
                                           w |-> shape[1], h |-> shape[2]]]
         /\ tempFrames = [exists |-> TRUE,
                          files |-> {[idx |-> i, kind |-> kinds[i], cur |-> TRUE] : i \in 1..n}]
    /\ fileNames = [i \in 1..Len(files) |-> FrameStem(i) \o ".png"]
    /\ bModel \in BatchModels
    /\ vModel = bModel
    /\ bNet \in BOOLEAN
    /\ vNet = bNet
    /\ \/ bModelFile = "absent" /\ FsAbsent
       \/ bModelFile = "complete" /\ FsComplete
    /\ bpc = "ort_init"
    /\ bIdx = 1
    /\ results = <<>>
    /\ bCalls = [i \in 1..Len(files) |-> 0]
    /\ bOutcome = [i \in 1..Len(files) |-> "none"]
    /\ outDir = {}
    /\ bRet = NoReturn
    /\ vpc = "frames"
    /\ tempUpscaled = [exists |-> TRUE, files |-> {}]
    /\ fpc = [k \in 1..Len(frameFiles) |-> "pending"]
    /\ fFd = [k \in 1..Len(frameFiles) |-> 0]
    /\ fOutcome = [k \in 1..Len(frameFiles) |-> "none"]
    /\ encodeInvoked = FALSE
    /\ vRet = NoReturn
    /\ EnvIdle

EquivNext ==
    \/ BatchOrtInit \/ BatchCreateDir \/ BatchProcessItem \/ BatchReturn
    \/ (\E k \in Frames : StartFrame(k))
    \/ (\E k \in Frames : CreatePart(k))
    \/ (\E k \in Frames : CopyBody(k))
    \/ (\E k \in Frames : RenamePart(k))
    \/ (\E k \in Frames : RunImage(k))
    \/ JoinFrames

EquivSpec == EquivInit /\ [][EquivNext]_vars

(***************************************************************************)
(* Properties of the size policy.                                          *)
(***************************************************************************)
ItemMinDim == MinDim(ModelTable[pItem.m].min_dimension)
ItemCap == MaxDimOf(ModelTable[pItem.m].min_dimension)
Sized == ppc = "sized"

\* C8: whenever either original dimension exceeds the effective cap
\* max(512, minimumDimension), the working size is a uniform downscale whose
\* larger dimension equals the effective cap, also when the other dimension
\* is below minimumDimension.
C8_DownscaleToCap ==
    (Sized /\ (pItem.w > ItemCap \/ pItem.h > ItemCap))
        => /\ Max(pWork[1], pWork[2]) = ItemCap
           /\ pWork[1] <= pItem.w
           /\ pWork[2] <= pItem.h

\* C9: when both original dimensions lie within
\* [minimumDimension, max(512, minimumDimension)] the image is not resized
\* and the working size equals the original size.
C9_IdentityCase ==
    (Sized /\ pItem.w >= ItemMinDim /\ pItem.w <= ItemCap
           /\ pItem.h >= ItemMinDim /\ pItem.h <= ItemCap)
        => (~pResized /\ pWork = <<pItem.w, pItem.h>>)

C9_Witness ==
    /\ Sized
    /\ pItem.w = WorkingCap /\ pItem.h = WorkingCap
    /\ ItemMinDim = WorkingCap
    /\ pWork = <<WorkingCap, WorkingCap>>

\* C10: a 1000x300 image with cap 512 and no minimum dimension gets working
\* size 512x153; a 32x32 image with minimumDimension 512 gets 512x512.
C10_BoundaryExamples ==
    Sized =>
        /\ (pItem.w = 1000 /\ pItem.h = 300 /\ ModelTable[pItem.m].min_dimension = None)
              => pWork = <<512, 153>>
        /\ (pItem.w = 32 /\ pItem.h = 32 /\ ModelTable[pItem.m].min_dimension = Some(512))
              => pWork = <<512, 512>>

C10_Witness ==
    /\ Sized /\ pResized
    /\ pItem.w = 1000 /\ pItem.h = 300
    /\ ModelTable[pItem.m].min_dimension = None
    /\ pWork[2] = 153

\* the scale factor the size policy multiplies both dimensions by,
\* main.rs:1415 and main.rs:1422
PolicyScale(ow, oh, minDimension) ==
    LET min_dim == MinDim(minDimension)
        max_dim == MaxDimOf(minDimension)
    IN  IF ow < min_dim \/ oh < min_dim
        THEN F32MaxOne(F32Div(min_dim, Min(ow, oh)))
        ELSE F32MinOne(F32Div(max_dim, Max(ow, oh)))

\* C11: when the size policy rescales, each resulting dimension is the
\* scaled value rounded to the nearest integer, not truncated: the working
\* size is (round(w*s), round(h*s)).
C11_RoundedToNearest ==
    (Sized /\ pResized) =>
        LET s == PolicyScale(pItem.w, pItem.h, ModelTable[pItem.m].min_dimension)
        IN  pWork = <<F32MulRound(pItem.w, s), F32MulRound(pItem.h, s)>>

(***************************************************************************)
(* Properties of pad_to_multiple.                                          *)
(***************************************************************************)
\* C12: for every size (w,h) with w,h >= 1 and every multiple m >= 1,
\* pad_to_multiple returns padded dimensions (pw,ph) divisible by m with
\* w <= pw < w+m and h <= ph < h+m and the pads (pw-w, ph-h); when w and h
\* are already multiples of m the image is returned unchanged with pads
\* (0,0).
C12_PadToMultiple ==
    Returned("pad_to_multiple") =>
        LET w == uArgs.w
            h == uArgs.h
            m == uArgs.multiple
            r == uRet.value
        IN  /\ r.dims[1] % m = 0 /\ r.dims[2] % m = 0
            /\ w <= r.dims[1] /\ r.dims[1] < w + m
            /\ h <= r.dims[2] /\ r.dims[2] < h + m
            /\ r.pads = <<r.dims[1] - w, r.dims[2] - h>>
            /\ (w % m = 0 /\ h % m = 0)
                   => (r.image = "clone" /\ r.dims = <<w, h>> /\ r.pads = <<0, 0>>)

C12_Witness ==
    /\ Returned("pad_to_multiple")
    /\ uArgs = [w |-> 5, h |-> 8, multiple |-> 4]
    /\ uRet.value.dims = <<8, 8>>
    /\ uRet.value.pads = <<3, 0>>

(***************************************************************************)
(* Properties of the stages after the size policy.                         *)
(***************************************************************************)
ItemModel == ModelTable[pItem.m]

\* the output tensor has the spatial size of the padded input times scale
ExpectedOutput ==
    pOutput = <<1, 3, pPadded.dims[2] * ItemModel.scale, pPadded.dims[1] * ItemModel.scale>>

\* C13: the crop after inference uses the pre-padding working dimensions
\* times the scale factor: given an inference output of spatial size
\* (paddedW*s, paddedH*s), the saved image and output_dims are exactly
\* (w*s, h*s), never (paddedW*s, paddedH*s) when padding was added.
C13_CropToWorkingSize ==
    (ppc \in {"cropped", "saved"} /\ ExpectedOutput) =>
        pFinal = <<pWork[1] * ItemModel.scale, pWork[2] * ItemModel.scale>>

C13_Witness ==
    /\ ppc = "saved"
    /\ ExpectedOutput
    /\ pPadded.pads[1] > 0 /\ pPadded.pads[2] > 0
    /\ ItemModel.scale > 1
    /\ pFinal = <<pWork[1] * ItemModel.scale, pWork[2] * ItemModel.scale>>
    /\ pFinal # pImage

\* C14: the tensor built for inference has the shape declared by the
\* model's tensor layout: [1, 3, H, W] for NCHW profiles and [1, H, W, 3]
\* for NHWC profiles, for every model of the model table.
C14_TensorShapeFollowsLayout ==
    (ppc \in {"encoded", "inferred", "decoded", "cropped", "saved", "panicked"}) =>
        LET W == pPadded.dims[1]
            H == pPadded.dims[2]
        IN  pTensor = IF ItemModel.tensor_format = "NCHW"
                      THEN <<1, 3, H, W>>
                      ELSE <<1, H, W, 3>>

\* C15: decoding an output tensor whose channel count is not 3 fails with
\* a shape error returned as an error value: it neither panics nor produces
\* an image from such a tensor.
C15_ChannelCountChecked ==
    pOutput[2] # 3 => ppc \notin {"panicked", "decoded", "cropped", "saved"}

(***************************************************************************)
(* Properties of the normalisation and of the output file name.            *)
(***************************************************************************)
\* C16: normalisation round trip: for every pixel value v in 0..255 and both
\* ranges, decoding the encoded value gives a value within 1 of v, and every
\* decoded value lies in 0..255.
C16_NormalizationRoundTrip ==
    Returned("normalize") =>
        LET d == uRet.value.decoded
        IN  /\ d \in 0..255
            /\ d - uArgs.val \in {-1, 0, 1}

C16_Witness ==
    /\ Returned("normalize")
    /\ uArgs.range = "MinusOneOne"
    /\ uRet.value.encoded.neg
    /\ uRet.value.decoded = uArgs.val - 1

\* the suffix the output file name is to carry
ClaimedSuffix(model_type, scale) ==
    IF model_type \in {"Upscaling", "Enhancement"} /\ scale > 1
    THEN "_" \o ToString(scale) \o "x"
    ELSE IF model_type = "Denoising" /\ scale = 1 THEN "_denoised"
    ELSE "_enhanced"

BatchReturnedOk == bpc = "done" /\ bRet.tag = "Ok"

FailedFiles == {i \in 1..Len(files) : bOutcome[i] \notin {"none", "ok"}}
SucceededFiles == {i \in 1..Len(files) : bOutcome[i] = "ok"}

\* the records of the returned value that report a success, and those that
\* report a failure (a failure record carries the failing stage)
SuccessRecords(v) == {k \in 1..Len(v) : "stage" \notin DOMAIN v[k]}
FailureRecords(v) == {k \in 1..Len(v) : "stage" \in DOMAIN v[k]}

\* C3: process_images returns to its caller, for every file whose run
\* failed, a failure record carrying the file's identity and the failing
\* stage, next to the successes: N files with k failing give N-k successes
\* and k failures.
C3_FailuresReturned ==
    BatchReturnedOk =>
        /\ Cardinality(SuccessRecords(bRet.value)) = Cardinality(SucceededFiles)
        /\ Cardinality(FailureRecords(bRet.value)) = Cardinality(FailedFiles)
        /\ \A i \in FailedFiles :
              \E k \in FailureRecords(bRet.value) :
                 /\ bRet.value[k].input_path = i
                 /\ bRet.value[k].stage = bOutcome[i]

C7_ResultsInInputOrder ==
    /\ \A k1, k2 \in 1..Len(results) :
          k1 < k2 => results[k1].input_path < results[k2].input_path
    /\ BatchReturnedOk =>
          \A i, j \in SucceededFiles :
             i < j => \E k1, k2 \in 1..Len(bRet.value) :
                         /\ k1 < k2
                         /\ bRet.value[k1].input_path = i
                         /\ bRet.value[k2].input_path = j

C7_Witness ==
    /\ BatchReturnedOk
    /\ Len(bRet.value) = 2
    /\ bRet.value[1].input_path = 1
    /\ bRet.value[2].input_path = 3
    /\ bOutcome[2] = "open"

(***************************************************************************)
(* Properties of process_video_blocking.                                   *)
(***************************************************************************)
FailedFrames == {k \in Frames : fOutcome[k] \notin {"none", "ok"}}
SucceededFrames == {k \in Frames : fOutcome[k] = "ok"}

\* C1: if process_single_image fails for at least one extracted frame, the
\* whole run ends in failure: the encode tool is never invoked for
\* reassembly and the call returns an error instead of an output path.
C1_FrameFailureFailsRun ==
    FailedFrames # {} =>
        /\ ~encodeInvoked
        /\ vpc = "done" => vRet.tag = "Err"

\* C2: every terminal state of a video run, whether it returns Ok or Err,
\* has both working directories removed.
C2_WorkingDirsRemoved ==
    (/\ vpc = "done"
     /\ \/ vRet.tag = "Ok"
        \/ vRet.value \in {"extract", "no_frames", "spawn_ffprobe", "reassemble"})
        => (~tempFrames.exists /\ ~tempUpscaled.exists)

\* C5: the reassembly invocation of the encode tool starts only after every
\* extracted frame has been resolved (its process_single_image call has
\* returned success or failure); no frame is still being processed when
\* reassembly begins.
C5_ReassemblyAfterAllFrames ==
    (vpc \in {"probe", "reassemble"} \/ encodeInvoked) =>
        /\ Running = {}
        /\ \A k \in Frames : fpc[k] = "done" /\ fOutcome[k] # "none"

C5_Witness ==
    /\ encodeInvoked
    /\ Len(frameFiles) = 2
    /\ fOutcome[1] = "ok"
    /\ fOutcome[2] = "open"

\* C18: a video run whose extraction step produces zero frame files
\* fails: no frame processing, probing or reassembly happens and the call
\* returns an error.
C18_ZeroFramesFail ==
    (tools.extract # "none" /\ tools.extracted = 0) =>
        /\ Frames = {}
        /\ vpc \in {"list", "done"}
        /\ ~encodeInvoked
        /\ vpc = "done" => vRet.tag = "Err"

\* C19: process_video returns Ok(outputPath) only if both external tool
\* invocations exited with success: a non-zero exit of the extraction ends
\* the run in failure before any frame is processed, and a non-zero exit of
\* the reassembly ends the run in failure with the tool's diagnostic text
\* in the returned error.
C19_ToolExitStatus ==
    /\ (vpc = "done" /\ vRet.tag = "Ok")
          => (tools.extract = "success" /\ tools.reassemble = "success")
    /\ tools.extract = "failure"
          => (vpc = "done" /\ vRet.tag = "Err" /\ Frames = {})
    /\ tools.reassemble = "failure"
          => (vpc = "done" /\ vRet.tag = "Err" /\ Contains(vRet.text, tools.stderr))

C19_Witness ==
    /\ vpc = "done"
    /\ tools.extract = "success"
    /\ tools.reassemble = "failure"
    /\ tools.stderr = "Unknown encoder 'h264'"
    /\ vRet.tag = "Err"
    /\ SucceededFrames # {}

\* the values that follow a flag in the arguments of the encode invocation
Options(flag) ==
    {ffmpegArgs[i + 1] : i \in {j \in 1..(Len(ffmpegArgs) - 1) : ffmpegArgs[j] = flag}}

\* whether the build can encode with the encoder name
EncoderAvailable(build, name) ==
    /\ build.spawns
    /\ IF name = "h264" THEN build.encoders \cap H264Encoders # {}
       ELSE name \in build.encoders

FirstAvailableEncoder(build) ==
    IF EncoderAvailable(build, "libx264") THEN "libx264"
    ELSE IF EncoderAvailable(build, "h264") THEN "h264"
    ELSE "mpeg4"

\* C20: the video encoder passed to the encode tool is the first available
\* of the preference order libx264, h264, mpeg4 (mpeg4 when neither of the
\* first two is available); when libx264 is unavailable and h264 is
\* available, h264 is selected and the choice is reported in the
\* diagnostics.  The choice is made before the encode invocation.
C20_VideoCodecNegotiation ==
    (vpc = "reassemble" \/ encodeInvoked) =>
        /\ Options("-c:v") = {FirstAvailableEncoder(tools.build)}
        /\ ("Using video codec: " \o FirstAvailableEncoder(tools.build)) \in diag

(***************************************************************************)
(* Sequential and parallel scheduling of the same files.                   *)
(***************************************************************************)
BothSchedulersDone == bpc = "done" /\ bRet.tag = "Ok" /\ vpc = "probe"

SavedDims(dir, idx) == {u.dims : u \in {x \in dir.files : x.idx = idx}}

\* C6: the same files run through the loop of process_images and through
\* the rayon pool give the same set of succeeding files, the same set of
\* failing files and the same output dimensions per file, for every
\* interleaving of the threads of the pool.
C6_SchedulersAgree ==
    BothSchedulersDone =>
        /\ SucceededFrames = SucceededFiles
        /\ FailedFrames = FailedFiles
        /\ \A k \in 1..Len(results) :
              SavedDims(tempUpscaled, results[k].input_path) = {results[k].output_dims}

(***************************************************************************)
(* Properties of the frame rate and of the audio arguments.                *)
(***************************************************************************)
AllDigits(s) == Len(s) > 0 /\ \A i \in 1..Len(s) : IsDigit(SubSeq(s, i, i))

\* the position of the slash of a rational string n/d, 0 for other strings
SlashOfRational(s) ==
    LET at == {i \in 1..Len(s) :
                  /\ SubSeq(s, i, i) = "/"
                  /\ AllDigits(SubSeq(s, 1, i - 1))
                  /\ AllDigits(SubSeq(s, i + 1, Len(s)))}
    IN  IF at = {} THEN 0 ELSE CHOOSE i \in at : TRUE

\* out is a decimal with exactly three fractional digits, the nearest one
\* to num/den
IsQuotient3(out, num, den) ==
    /\ Len(out) >= 5
    /\ SubSeq(out, Len(out) - 3, Len(out) - 3) = "."
    /\ AllDigits(SubSeq(out, 1, Len(out) - 4))
    /\ AllDigits(SubSeq(out, Len(out) - 2, Len(out)))
    /\ den # 0
    /\ LET v == 1000 * DigitsValue(SubSeq(out, 1, Len(out) - 4))
                  + DigitsValue(SubSeq(out, Len(out) - 2, Len(out)))
           err == v * den - 1000 * num
       IN  2 * (IF err < 0 THEN -err ELSE err) <= den

\* C22: an empty probe string gives the frame rate "30"; a rational string
\* n/d with numeric n and d gives n/d as a decimal with exactly three
\* fractional digits; any other non-empty string is passed through
\* unchanged.
C22_FrameRate ==
    Returned("frame_rate") =>
        LET s == uArgs.fps_str
            out == uRet.value
            slash == SlashOfRational(s)
        IN  /\ s = "" => out = "30"
            /\ slash # 0 => IsQuotient3(out, DigitsValue(SubSeq(s, 1, slash - 1)),
                                        DigitsValue(SubSeq(s, slash + 1, Len(s))))
            /\ (s # "" /\ slash = 0) => out = s

FirstAvailableAudioEncoder(build) ==
    IF EncoderAvailable(build, "aac") THEN "aac"
    ELSE IF EncoderAvailable(build, "libmp3lame") THEN "libmp3lame"
    ELSE "copy"

\* C21: the audio stream of the source is mapped into the output exactly
\* when an audio stream was detected; the audio encoder is then the first
\* available of aac, libmp3lame, and otherwise copy; the audio bitrate
\* option is present exactly when the encoder is not copy.
C21_AudioArguments ==
    (vpc = "reassemble" \/ encodeInvoked) =>
        /\ ("1:a:0" \in Options("-map")) <=> tools.has_audio
        /\ tools.has_audio
              => Options("-c:a") = {FirstAvailableAudioEncoder(tools.build)}
        /\ ~tools.has_audio => Options("-c:a") = {}
        /\ (Options("-b:a") # {})
              <=> (tools.has_audio /\ Options("-c:a") # {"copy"})

(***************************************************************************)
(* Properties of one whole call of process_single_image.                   *)
(***************************************************************************)
StageOrder == <<"load", "resize", "pad", "encode", "infer", "decode", "crop", "save">>

StagesRun == {pTrace[i] : i \in 1..Len(pTrace)}

LastStage == IF pTrace = <<>> THEN "none" ELSE pTrace[Len(pTrace)]

\* C23: the stages of one image run in the order load, resize, pad, encode,
\* infer, decode, crop, save; when a stage fails no later stage runs, no
\* output file is written and no ProcessResult is produced.
C23_StagesInOrder ==
    /\ Len(pTrace) <= Len(StageOrder)
    /\ pTrace = SubSeq(StageOrder, 1, Len(pTrace))
    /\ ("load" \in StagesRun /\ pItem.kind = "corrupt")
          => (LastStage = "load" /\ pRet.tag = "Err")
    /\ ("pad" \in StagesRun /\ (pPadded.dims[1] = 0 \/ pPadded.dims[2] = 0))
          => (LastStage = "pad" /\ pRet.tag = "Err")
    /\ pRet.tag = "Err" => (LastStage = pRet.value /\ pSaved = "")
    /\ ppc = "panicked" => (LastStage = "decode" /\ pSaved = "" /\ pRet = NoReturn)
    /\ pRet.tag = "Ok" => (pTrace = StageOrder /\ pSaved # "")
    /\ pSaved # "" => pRet.tag = "Ok"

\* a call that failed at the test of the padded dimensions
C23_Witness ==
    /\ pItem.kind = "good"
    /\ pTrace = <<"load", "resize", "pad">>
    /\ pPadded.dims[2] = 0
    /\ pRet = PErr("pad")
    /\ pSaved = ""

\* C24: every pixel of the padded image is read from a source pixel inside
\* [0, w-1] x [0, h-1] of the image to pad, and the pixels of the original
\* region are copied unchanged.
C24_ReflectionInBounds ==
    Returned("pad_pixels") =>
        LET src == uRet.value
        IN  /\ \A p \in DOMAIN src :
                  /\ src[p][1] \in 0..(uArgs.w - 1)
                  /\ src[p][2] \in 0..(uArgs.h - 1)
            /\ \A x \in 0..(uArgs.w - 1), y \in 0..(uArgs.h - 1) :
                  /\ <<x, y>> \in DOMAIN src
                  /\ src[<<x, y>>] = <<x, y>>

\* a 2x1 image padded to 5x5: the pad is wider than the image
C24_Witness ==
    /\ Returned("pad_pixels")
    /\ uArgs = [w |-> 2, h |-> 1, multiple |-> 5]
    /\ uRet.value[<<4, 4>>] = <<0, 0>>
    /\ uRet.value[<<2, 0>>] = <<1, 0>>

(***************************************************************************)
(* Properties of the frame files handed to the reassembly.                 *)
(***************************************************************************)
\* the image sequence the encode invocation reads
InputSequence == CHOOSE a \in Options("-i") : Contains(a, "%06d")

\* the file name ffmpeg opens for the n-th image of a sequence pattern
ExpandPattern(pattern, n) ==
    LET at == CHOOSE i \in 1..Len(pattern) : SubSeq(pattern, i, i + 3) = "%06d"
    IN  SubSeq(pattern, 1, at - 1) \o ZeroPad(n, 6)
            \o SubSeq(pattern, at + 4, Len(pattern))

\* the frames written into temp_upscaled by this run
WrittenFrames == {u \in tempUpscaled.files : u.cur}

\* C25: the name written for an upscaled frame (stem of the extracted frame,
\* suffix, .png) is the name the pattern frame_%06d<suffix>.png of the
\* reassembly stands for, at the same index.
C25_FrameNamesMatchPattern ==
    vpc = "reassemble" =>
        \A u \in WrittenFrames :
            ("./temp_upscaled/" \o u.name) = ExpandPattern(InputSequence, u.idx)

C25_Witness ==
    /\ vpc = "reassemble"
    /\ \E u \in WrittenFrames : u.idx = 2 /\ u.name = "frame_000002_4x.png"
    /\ InputSequence = "./temp_upscaled/frame_%06d_4x.png"

\* C26: an image that reaches padding and inference has both working
\* dimensions within [max(1, minimumDimension), max(512, minimumDimension)];
\* an image whose rescaled size has a zero dimension ends in failure and is
\* never sent to inference.
C26_WorkingSizeBound ==
    /\ "infer" \in StagesRun
          => /\ pWork[1] \in Max(1, ItemMinDim)..ItemCap
             /\ pWork[2] \in Max(1, ItemMinDim)..ItemCap
    /\ ("pad" \in StagesRun /\ (pWork[1] = 0 \/ pWork[2] = 0))
          => (pRet.tag = "Err" /\ "infer" \notin StagesRun)

(***************************************************************************)
(* Properties of the files shared by the threads and by successive runs.   *)
(***************************************************************************)
\* C27: in a parallel video run the exists check, the write to the shared
\* .part file and the rename never leave a partially written file at the
\* final model path: whenever a worker loads the model file it is a
\* completely downloaded artifact, for every interleaving of the workers.
C27_ModelFileComplete ==
    /\ finalIno # 0 => inoData[finalIno] = "complete"
    /\ \A k \in Frames :
          (fpc[k] = "session" /\ ModelTable[vModel].url # "local")
              => ModelFileState = "complete"

\* C28: after any sequence of earlier video runs the frames a run processes
\* and the processed frames it hands to the reassembly come only from the
\* source video of the current run: no frame file left in the working
\* directories by an earlier run is included.
C28_NoStaleFrames ==
    /\ \A k \in Frames : frameFiles[k].cur
    /\ vpc = "reassemble" => \A u \in tempUpscaled.files : u.cur

\* C29: within one batch two distinct input files never map to the same
\* output path: no output file of an item is overwritten by another item
\* of the batch, and the output_path of every returned ProcessResult holds
\* the output of that item.
C29_DistinctOutputPaths ==
    /\ \A k1, k2 \in 1..Len(results) :
          k1 # k2 => results[k1].output_path # results[k2].output_path
    /\ \A k \in 1..Len(results) :
          [name |-> results[k].output_path, from |-> results[k].input_path] \in outDir

(***************************************************************************)
(* Properties of the state of the window.                                  *)
(***************************************************************************)
SelectedFiles == {image_files[i] : i \in 1..Len(image_files)}

\* C30: after any sequence of messages every entry of process_results has
\* an input_path that belongs to the image_files selected at that time; a
\* ProcessComplete that arrives after another input was selected while the
\* run was in flight does not install the results of the old input.
C30_ResultsOfSelectedFiles ==
    \A k \in 1..Len(process_results) :
        process_results[k].input_path \in SelectedFiles

====
